---- MODULE Spec2Model ----
(***************************************************************************)
(* Model of pkg/flex/mounter.go of flex-fuse: the FlexVolume mount and     *)
(* unmount orchestration around a helper container.                        *)
(*                                                                         *)
(* A string of the program that is cut or searched (a path, the output of  *)
(* the mount command, the name of a directory to create) is a sequence of  *)
(* tokens: the path separator is one token, all other tokens are pieces of *)
(* text that hold no separator.  strings.Split, strings.Contains,          *)
(* strings.HasPrefix and path.Join are computed on these sequences.  A     *)
(* string that is only built and compared (a container name) is a TLA+     *)
(* string.                                                                 *)
(***************************************************************************)
EXTENDS Integers, Sequences, FiniteSets, TLC

VARIABLES
    cfgType,      \* m.Config.Type: "link" or anything else (direct mode)
    inv,          \* per process: the invocation it runs and where it stands
    mountTab,     \* kernel mount table: path -> number of mounts stacked on it
    containers,   \* container runtime registry: records [name, target, phase]
    fsAt,         \* what the filesystem holds at a target or shared path
    dirsOn,       \* directories that exist beneath the target paths
    umounts,      \* paths with a started umount command that has not run yet
    last,         \* the last successful invocation, while only its repetition follows
    hist,         \* history: paths ever mounted or linked, foreign mounts seen
    rin,          \* path identity resolver: the path it is applied to
    rin2,         \* path identity resolver: a second path, of the kubelet form
    rout,         \* path identity resolver: the results, once computed
    pin,          \* mount-state prober alone: the path asked for
    pok,          \* mount-state prober alone: whether the mount command runs
    pout          \* mount-state prober alone: the answer, once computed

vars == <<cfgType, inv, mountTab, containers, fsAt, dirsOn, umounts, last,
          hist, rin, rin2, rout, pin, pok, pout>>
sysVars == <<cfgType, inv, mountTab, containers, fsAt, dirsOn, umounts, last,
             hist>>
resVars == <<rin, rin2, rout, pin, pok, pout>>

-----------------------------------------------------------------------------
(* Bounds of the model *)

\* mounts the kernel may stack on one path
MaxStack == 2
\* longest list of directory descriptors in a mount specification
MaxDirs == 2
\* longest free-form path (in tokens) handed to the resolver
MaxToks == 6

-----------------------------------------------------------------------------
(* Strings as token sequences *)

\* string(filepath.Separator)
Sep == "/"

Min(S) == CHOOSE x \in S : \A y \in S : x <= y

\* strings.Split(s, Sep): the pieces between the separators, empty pieces kept;
\* a piece is the concatenation of the tokens between two separators
RECURSIVE SplitFrom(_, _, _)
SplitFrom(s, n, cur) ==
    IF n > Len(s) THEN <<cur>>
    ELSE IF s[n] = Sep THEN <<cur>> \o SplitFrom(s, n + 1, "")
    ELSE SplitFrom(s, n + 1, cur \o s[n])

Split(s) == SplitFrom(s, 1, "")

\* strings.HasPrefix(s, Sep)
HasSepPrefix(s) == Len(s) >= 1 /\ s[1] = Sep

\* strings.Contains(s, sub)
Contains(s, sub) ==
    \E n \in 0..(Len(s) - Len(sub)) :
        \A m \in 1..Len(sub) : s[n + m] = sub[m]

\* path.Join(elems...): the non-empty elements joined by the separator (the
\* elements used here are clean: no dot segments, no doubled separators)
RECURSIVE JoinFrom(_, _)
JoinFrom(elems, n) ==
    IF n > Len(elems) THEN <<>>
    ELSE IF elems[n] = <<>> THEN JoinFrom(elems, n + 1)
    ELSE LET rest == JoinFrom(elems, n + 1)
         IN IF rest = <<>> THEN elems[n] ELSE elems[n] \o <<Sep>> \o rest

PathJoin(elems) == JoinFrom(elems, 1)

\* an absolute path from its segment names
RECURSIVE AbsPath(_)
AbsPath(names) ==
    IF names = <<>> THEN <<>>
    ELSE <<Sep, Head(names)>> \o AbsPath(Tail(names))

-----------------------------------------------------------------------------
(* Path identity resolver *)

NoError == "nil"

Max(S) == CHOOSE x \in S : \A y \in S : x >= y

\* a resolver that lets the last part equal to "pods" decide
ResolveByLastPods(targetPath) ==
    LET splitTargetPath == Split(targetPath)
        found == {n \in 1..Len(splitTargetPath) : splitTargetPath[n] = "pods"}
    IN  IF found = {}
        THEN [name |-> "", err |-> "Could not find pod directory in path"]
        ELSE LET podIDIdx == Max(found) + 1
             IN  IF podIDIdx > Len(splitTargetPath)
                 THEN [name |-> "",
                       err |-> "Expected a directory after pods, found it at the end"]
                 ELSE [name |-> "v3io-fuse-" \o splitTargetPath[podIDIdx] \o "-"
                                  \o splitTargetPath[Len(splitTargetPath)],
                       err |-> NoError]

\* getContainerNameFromTargetPath: the first part equal to "pods" decides
getContainerNameFromTargetPath(targetPath) ==
    LET splitTargetPath == Split(targetPath)
        found == {n \in 1..Len(splitTargetPath) : splitTargetPath[n] = "pods"}
    IN  IF found = {}
        THEN [name |-> "", err |-> "Could not find pod directory in path"]
        ELSE LET podIDIdx == Min(found) + 1
             IN  IF podIDIdx > Len(splitTargetPath)
                 THEN [name |-> "",
                       err |-> "Expected a directory after pods, found it at the end"]
                 ELSE [name |-> "v3io-fuse-" \o splitTargetPath[podIDIdx] \o "-"
                                  \o splitTargetPath[Len(splitTargetPath)],
                       err |-> NoError]

\* Inputs of the resolver: every token sequence up to MaxToks, and the paths
\* of the kubelet form <root>/pods/<pod-id>/volumes/<driver>/<volume-name>
ResolverTokens == {Sep, "pods", "a", "b", "c"}

FreePaths == UNION {[1..n -> ResolverTokens] : n \in 0..MaxToks}

KubeletPaths ==
    {AbsPath(<<root, "pods", pod, "volumes", driver, vol>>) :
        root \in {"a", "k"}, pod \in {"XYZ", "a-b", "a"},
        driver \in {"v3io~fuse", "d"}, vol \in {"vol1", "c", "b-c"}}

NotResolved == <<>>

ResolveInit ==
    /\ \/ rin \in FreePaths /\ rin2 = rin
       \/ rin \in KubeletPaths /\ rin2 \in KubeletPaths
    /\ rout = NotResolved

\* the resolver applied to both inputs
Resolve ==
    /\ rout = NotResolved
    /\ rout' = <<getContainerNameFromTargetPath(rin),
                 getContainerNameFromTargetPath(rin2)>>
    /\ UNCHANGED <<rin, rin2, pin, pok, pout>>
    /\ UNCHANGED sysVars

-----------------------------------------------------------------------------
(* The world of the orchestrator: paths, specifications, responses *)

\* kubelet-assigned target paths; both resolve to the identity v3io-fuse-a-b-c
TargetA == AbsPath(<<"k", "pods", "a-b", "volumes", "d", "c">>)
TargetB == AbsPath(<<"k", "pods", "a", "volumes", "d", "b-c">>)
TargetPaths == {TargetA, TargetB}
\* the pods of the node: two pods share a volume in link mode, one pod has a
\* volume of its own in direct mode
TargetsOf(type) == IF type = "link" THEN {TargetA, TargetB} ELSE {TargetA}

\* a path mounted by someone else whose text ends with that of TargetA
ForeignPath == <<Sep, "x">> \o TargetA

\* mountAsLink: linkPath := path.Join("/mnt/v3io", spec.Namespace, spec.Container)
linkPathOf(spec) ==
    PathJoin(<<<<Sep, "mnt", Sep, "v3io">>, spec.Namespace, spec.Container>>)

Namespaces == {<<"ns">>, <<"pods">>}
ContainerC == <<"c">>
LinkPaths == {linkPathOf([Namespace |-> ns, Container |-> ContainerC]) :
                 ns \in Namespaces}

MountPaths == TargetPaths \cup LinkPaths \cup {ForeignPath}
FsPaths == TargetPaths \cup LinkPaths

\* DirToCreate descriptors: a relative name and an absolute one, mode 0755
DirRel == [Name |-> <<"a", Sep, "b">>, Permissions |-> 493]
DirAbs == [Name |-> <<Sep, "etc">>, Permissions |-> 493]
DirLists == UNION {[1..n -> {DirRel, DirAbs}] : n \in 0..MaxDirs}

\* spec.DirsToCreate: the empty string, text that is no JSON list, or a list
DirsEmpty == [text |-> "", wellformed |-> FALSE, list |-> <<>>]
DirsGarbage == [text |-> "garbage", wellformed |-> FALSE, list |-> <<>>]
DirsJSON(l) == [text |-> "json", wellformed |-> TRUE, list |-> l]
DirTexts == {DirsEmpty, DirsGarbage} \cup {DirsJSON(l) : l \in DirLists}

\* specString: whether json.Unmarshal accepts it, whether spec.validate accepts
\* the record, and the fields the orchestrator reads
MkSpec(u, v, ns, d) ==
    [unmarshals |-> u, validates |-> v, Namespace |-> ns,
     Container |-> ContainerC, DirsToCreate |-> d]

\* the specifications handed to Mount: text that is no JSON, a record that fails
\* validation, and valid records; link mode reads the namespace and never the
\* directories, direct mode reads the directories and never the namespace
SpecInputs(type) ==
    {MkSpec(FALSE, FALSE, <<"ns">>, DirsEmpty),
     MkSpec(TRUE, FALSE, <<"ns">>, DirsEmpty)}
    \cup (IF type = "link"
          THEN {MkSpec(TRUE, TRUE, ns, DirsEmpty) : ns \in Namespaces}
          ELSE {MkSpec(TRUE, TRUE, <<"ns">>, d) : d \in DirTexts})

\* what a path of the filesystem holds
NoFile == [kind |-> "absent", to |-> <<>>]
Dir == [kind |-> "directory", to |-> <<>>]
Symlink(to) == [kind |-> "symlink", to |-> to]

Procs == {"p1", "p2"}
\* the kubelet of the sequential specification runs one invocation at a time
SeqProcs == {"p1"}

NoResponse == [status |-> "none", message |-> "", cause |-> ""]
NewSuccessResponse(m) == [status |-> "Success", message |-> m, cause |-> ""]
NewFailResponse(m, cause) ==
    [status |-> "Failure", message |-> m, cause |-> cause]

Idle ==
    [op |-> "idle", pc |-> "idle", target |-> <<>>,
     spec |-> MkSpec(FALSE, FALSE, <<>>, DirsEmpty),
     k |-> 0, j |-> 0, resp |-> NoResponse, calls |-> {},
     removed |-> "", created |-> "",
     faulted |-> FALSE, qfail |-> FALSE, seen |-> FALSE, made |-> {}]

NoLast == [op |-> "none"]

-----------------------------------------------------------------------------
(* Mount-state prober *)

\* one line of the mount command's output
MountLine(p) == <<"v3io on ">> \o p \o <<" type", " fuse (rw)", "\n">>

RECURSIVE Repeat(_, _)
Repeat(s, n) == IF n = 0 THEN <<>> ELSE s \o Repeat(s, n - 1)

\* the output of the mount command for a mount table
RECURSIVE MountOutput(_, _)
MountOutput(tab, paths) ==
    IF paths = {} THEN <<>>
    ELSE LET p == CHOOSE q \in paths : TRUE
         IN Repeat(MountLine(p), tab[p]) \o MountOutput(tab, paths \ {p})

\* isMountPoint: false when the mount command fails, else whether its output
\* contains path + " type"
isMountPoint(path, cmdOk, tab) ==
    IF ~cmdOk THEN FALSE
    ELSE Contains(MountOutput(tab, DOMAIN tab), path \o <<" type">>)

\* the prober alone: asked once for a path, over every mount table
NotProbed == <<>>
ProberIdle == pin = <<>> /\ pok = TRUE /\ pout = NotProbed

Probe ==
    /\ pout = NotProbed
    /\ pout' = <<isMountPoint(pin, pok, mountTab)>>
    /\ UNCHANGED <<rin, rin2, rout, pin, pok>>
    /\ UNCHANGED sysVars

-----------------------------------------------------------------------------
(* Container runtime (cri.CRI) *)

\* CreateContainer(image, name, target, args): a name is taken at most once
CreateContainer(reg, name, target, ok) ==
    IF ok /\ ~(\E c \in reg : c.name = name)
    THEN [reg |-> reg \cup {[name |-> name, target |-> target,
                             phase |-> "starting"]},
          err |-> NoError]
    ELSE [reg |-> reg, err |-> "create failed"]

\* RemoveContainer(name)
RemoveContainer(reg, name, ok) ==
    IF ok
    THEN [reg |-> {c \in reg : c.name # name}, err |-> NoError]
    ELSE [reg |-> reg, err |-> "remove failed"]

\* the mount table once the containers of `gone` have taken their mounts along
Released(tab, gone) ==
    [p \in DOMAIN tab |->
        IF tab[p] > 0 /\ \E c \in gone : c.target = p /\ c.phase = "serving"
        THEN tab[p] - 1 ELSE tab[p]]

-----------------------------------------------------------------------------
(* Filesystem calls *)

\* os.Remove(p) succeeds on a link or an empty directory that is no mount point
CanRemove(p) == fsAt[p] # NoFile /\ mountTab[p] = 0

\* os.MkdirAll(dirToCreate): the directory and its missing parents below base
MkdirAll(base, dirToCreate) ==
    {SubSeq(dirToCreate, 1, n) : n \in
        {m \in (Len(base) + 1)..Len(dirToCreate) :
            m = Len(dirToCreate) \/ dirToCreate[m + 1] = Sep}}

-----------------------------------------------------------------------------
(* Steps of an invocation *)

\* the wait steps of the two polling loops, in seconds
CreateSchedule == <<1, 2, 4, 2, 1>>
UnmountSchedule == <<1, 2, 4>>

Step(i, r) == inv' = [inv EXCEPT ![i] = r]
Log(r, c) == [r EXCEPT !.calls = @ \cup {c}]
Done(r, resp) == [r EXCEPT !.pc = "done", !.resp = resp]
\* a collaborator answered with an error
Fault(r, failed) == [r EXCEPT !.faulted = @ \/ failed]
\* a probe: the call is logged, and a failed mount command noted
Probed(r, cmdOk) ==
    [Fault(Log(r, "isMountPoint"), ~cmdOk) EXCEPT !.qfail = @ \/ ~cmdOk]

\* the path the helper container is bound to: the target, or the shared path
boundPath(r) == IF cfgType = "link" THEN linkPathOf(r.spec) ELSE r.target

\* the record of the last successful invocation is kept while the kubelet
\* repeats that invocation, and dropped when it calls something else
Repeated(op, targetPath, spec) ==
    IF last.op = op /\ last.target = targetPath /\ last.spec = spec
    THEN last ELSE NoLast

\* a Mount that chooses the strategy before it looks at the specification
MountDispatchFirst(i, targetPath, spec) ==
    /\ inv[i].op = "idle"
    /\ LET r == [Idle EXCEPT !.op = "mount", !.target = targetPath,
                             !.spec = spec]
       IN Step(i, IF cfgType = "link"
                  THEN [r EXCEPT !.pc = "mountAsLink"]
                  ELSE IF ~spec.unmarshals
                  THEN Done(r, NewFailResponse("Failed to unmarshal spec",
                                               "json"))
                  ELSE IF ~spec.validates
                  THEN Done(r, NewFailResponse("Mount failed validation",
                                               "validate"))
                  ELSE [r EXCEPT !.pc = "probe"])
    /\ last' = Repeated("mount", targetPath, spec)
    /\ UNCHANGED <<resVars, cfgType, mountTab, containers, fsAt, dirsOn,
                   umounts, hist>>

\* Mount: unmarshal, validate, choose the strategy
Mount(i, targetPath, spec) ==
    /\ inv[i].op = "idle"
    /\ LET r == [Idle EXCEPT !.op = "mount", !.target = targetPath,
                             !.spec = spec]
       IN Step(i, IF ~spec.unmarshals
                  THEN Done(r, NewFailResponse("Failed to unmarshal spec",
                                               "json"))
                  ELSE IF ~spec.validates
                  THEN Done(r, NewFailResponse("Mount failed validation",
                                               "validate"))
                  ELSE IF cfgType = "link"
                  THEN [r EXCEPT !.pc = "mountAsLink"]
                  ELSE [r EXCEPT !.pc = "probe"])
    /\ last' = Repeated("mount", targetPath, spec)
    /\ UNCHANGED <<resVars, cfgType, mountTab, containers, fsAt, dirsOn,
                   umounts, hist>>

\* a Mount that probes the target and goes on whatever the answer
MountProbeNoReturn(i) ==
    /\ inv[i].pc = "probe"
    /\ \E cmdOk \in BOOLEAN :
        LET r == Probed(inv[i], cmdOk)
        IN /\ Step(i, [r EXCEPT !.pc = "createV3IOFUSEContainer"])
    /\ UNCHANGED <<resVars, cfgType, mountTab, containers, fsAt, dirsOn,
                   umounts, last, hist>>

\* Mount, direct mode: if isMountPoint(targetPath) return success
MountProbe(i) ==
    /\ inv[i].pc = "probe"
    /\ \E cmdOk \in BOOLEAN :
        LET r == Probed(inv[i], cmdOk)
        IN /\ Step(i, IF isMountPoint(r.target, cmdOk, mountTab)
                      THEN Done(r, NewSuccessResponse("Already mounted"))
                      ELSE [r EXCEPT !.pc = "createV3IOFUSEContainer"])
    /\ UNCHANGED <<resVars, cfgType, mountTab, containers, fsAt, dirsOn,
                   umounts, last, hist>>

\* how Mount and mountAsLink report an error of createV3IOFUSEContainer
CreateFailed(r, cause) ==
    Done(r, NewFailResponse("Failed to create v3io FUSE container", cause))

\* createV3IOFUSEContainer up to the container name: createCRI, DataURLs,
\* getContainerNameFromTargetPath
CreatePrepare(i) ==
    /\ inv[i].pc = "createV3IOFUSEContainer"
    /\ \E criOk, urlsOk \in BOOLEAN :
        LET r == Fault(Log(inv[i], "createCRI"), ~criOk \/ ~urlsOk)
            containerName == getContainerNameFromTargetPath(boundPath(r))
        IN Step(i, IF ~criOk THEN CreateFailed(r, "createCRI")
                   ELSE IF ~urlsOk
                   THEN CreateFailed(r, "Could not get cluster data urls")
                   ELSE IF containerName.err # NoError
                   THEN CreateFailed(r, "Failed to get container name")
                   ELSE [r EXCEPT !.pc = "removeStale"])
    /\ UNCHANGED <<resVars, cfgType, mountTab, containers, fsAt, dirsOn,
                   umounts, last, hist>>

\* a lifecycle manager that returns the error of its advisory removal
RemoveStaleChecked(i) ==
    /\ inv[i].pc = "removeStale"
    /\ \E ok, gone \in BOOLEAN :
        LET containerName == getContainerNameFromTargetPath(boundPath(inv[i]))
            res == RemoveContainer(containers, containerName.name, ok)
            r == [Fault(Log(inv[i], "RemoveContainer"), ~ok) EXCEPT
                     !.removed = containerName.name]
        IN /\ containers' = res.reg
           /\ mountTab' = IF gone THEN Released(mountTab, containers \ res.reg)
                                  ELSE mountTab
           /\ Step(i, IF res.err # NoError
                      THEN CreateFailed(r, "Could not remove container")
                      ELSE [r EXCEPT !.pc = "create"])
    /\ UNCHANGED <<resVars, cfgType, fsAt, dirsOn, umounts, last, hist>>

\* createV3IOFUSEContainer: m.removeV3IOFUSEContainer(...), its error dropped
RemoveStale(i) ==
    /\ inv[i].pc = "removeStale"
    /\ \E ok, gone \in BOOLEAN :
        LET containerName == getContainerNameFromTargetPath(boundPath(inv[i]))
            res == RemoveContainer(containers, containerName.name, ok)
            r == [Log(inv[i], "RemoveContainer") EXCEPT
                     !.removed = containerName.name]
        IN /\ containers' = res.reg
           /\ mountTab' = IF gone THEN Released(mountTab, containers \ res.reg)
                                  ELSE mountTab
           /\ Step(i, [r EXCEPT !.pc = "create"])
    /\ UNCHANGED <<resVars, cfgType, fsAt, dirsOn, umounts, last, hist>>

\* createV3IOFUSEContainer: criInstance.CreateContainer(image, name, target, args)
CreateStep(i) ==
    /\ inv[i].pc = "create"
    /\ \E ok \in BOOLEAN :
        LET containerName == getContainerNameFromTargetPath(boundPath(inv[i]))
            res == CreateContainer(containers, containerName.name,
                                   boundPath(inv[i]), ok)
            r == [Fault(Log(inv[i], "CreateContainer"), res.err # NoError)
                     EXCEPT !.created = containerName.name]
        IN IF res.err # NoError
           THEN /\ Step(i, CreateFailed(r, "Failed to create container"))
                /\ UNCHANGED <<containers, fsAt>>
           ELSE /\ containers' = res.reg
                /\ fsAt' = [fsAt EXCEPT ![boundPath(r)] = Dir]
                /\ Step(i, [r EXCEPT !.pc = "poll", !.k = 1,
                                     !.seen = mountTab[boundPath(r)] > 0])
    /\ UNCHANGED <<resVars, cfgType, mountTab, dirsOn, umounts, last, hist>>

\* a create-side poll that waits until the path is mounted, however long
PollCheckUnbounded(i) ==
    /\ inv[i].pc = "poll"
    /\ \E cmdOk \in BOOLEAN :
        LET r == Probed(inv[i], cmdOk)
        IN /\ Step(i, IF isMountPoint(boundPath(r), cmdOk, mountTab)
                      THEN [r EXCEPT !.pc = IF cfgType = "link"
                                            THEN "linkRemove"
                                            ELSE "createDirs"]
                      ELSE [Log(r, "Sleep") EXCEPT !.k = @ + 1])
    /\ UNCHANGED <<resVars, cfgType, mountTab, containers, fsAt, dirsOn,
                   umounts, last, hist>>

\* createV3IOFUSEContainer: one round of the polling loop: the check, and the
\* sleep when the path is not mounted
PollCheck(i) ==
    /\ inv[i].pc = "poll"
    /\ inv[i].k <= Len(CreateSchedule)
    /\ \E cmdOk \in BOOLEAN :
        LET r == Probed(inv[i], cmdOk)
        IN /\ Step(i, IF isMountPoint(boundPath(r), cmdOk, mountTab)
                      THEN [r EXCEPT !.pc = IF cfgType = "link"
                                            THEN "linkRemove"
                                            ELSE "createDirs"]
                      ELSE [Log(r, "Sleep") EXCEPT !.k = @ + 1])
    /\ UNCHANGED <<resVars, cfgType, mountTab, containers, fsAt, dirsOn,
                   umounts, last, hist>>

\* createV3IOFUSEContainer: the loop is over: "Failed to mount ... due to timeout"
PollTimeout(i) ==
    /\ inv[i].pc = "poll"
    /\ inv[i].k > Len(CreateSchedule)
    /\ Step(i, CreateFailed(inv[i], "Failed to mount due to timeout"))
    /\ UNCHANGED <<resVars, cfgType, mountTab, containers, fsAt, dirsOn,
                   umounts, last, hist>>

CreateDirsFailed(r, cause) ==
    Done(r, NewFailResponse("Failed to create folders", cause))

\* createDirs: json.Unmarshal of spec.DirsToCreate
CreateDirsParse(i) ==
    /\ inv[i].pc = "createDirs"
    /\ LET r == Log(inv[i], "createDirs")
           d == r.spec.DirsToCreate
       IN Step(i, IF ~d.wellformed
                  THEN IF d.text # ""
                       THEN CreateDirsFailed(r, "Failed to parse dirsToCreate")
                       ELSE Done(r, NewSuccessResponse("Successfully mounted"))
                  ELSE [r EXCEPT !.pc = "dirLoop", !.j = 1])
    /\ UNCHANGED <<resVars, cfgType, mountTab, containers, fsAt, dirsOn,
                   umounts, last, hist>>

\* a createDirs that goes on to the next descriptor when MkdirAll fails
CreateDirsStepLenient(i) ==
    /\ inv[i].pc = "dirLoop"
    /\ LET r == inv[i]
           l == r.spec.DirsToCreate.list
       IN IF r.j > Len(l)
          THEN /\ Step(i, Done(r, NewSuccessResponse("Successfully mounted")))
               /\ UNCHANGED dirsOn
          ELSE LET dir == l[r.j]
                   dirToCreate == r.target \o <<Sep>> \o dir.Name
               IN IF HasSepPrefix(dir.Name)
                  THEN /\ Step(i, CreateDirsFailed(r,
                              "Only creation of relative path is supported"))
                       /\ UNCHANGED dirsOn
                  ELSE \E io \in {"ok", "stat failed", "mkdir failed"} :
                      IF io = "stat failed"
                      THEN /\ Step(i, CreateDirsFailed(
                                  Fault(Log(r, "Stat"), TRUE), "Stat failed"))
                           /\ UNCHANGED dirsOn
                      ELSE IF dirToCreate \in dirsOn
                      THEN /\ Step(i, [Log(r, "Stat") EXCEPT !.j = @ + 1])
                           /\ UNCHANGED dirsOn
                      ELSE IF io = "mkdir failed"
                      THEN /\ Step(i, [Fault(Log(r, "MkdirAll"), TRUE) EXCEPT
                                         !.j = @ + 1])
                           /\ UNCHANGED dirsOn
                      ELSE /\ dirsOn' = dirsOn \cup MkdirAll(r.target, dirToCreate)
                           /\ Step(i, [Log(r, "MkdirAll") EXCEPT
                                         !.j = @ + 1,
                                         !.made = @ \cup (MkdirAll(r.target,
                                                     dirToCreate) \ dirsOn)])
    /\ UNCHANGED <<resVars, cfgType, mountTab, containers, fsAt, umounts,
                   last, hist>>

\* createDirs: one round of the loop over dirsToCreate (io: what Stat and
\* MkdirAll answer), or its end
CreateDirsStep(i) ==
    /\ inv[i].pc = "dirLoop"
    /\ LET r == inv[i]
           l == r.spec.DirsToCreate.list
       IN IF r.j > Len(l)
          THEN /\ Step(i, Done(r, NewSuccessResponse("Successfully mounted")))
               /\ UNCHANGED dirsOn
          ELSE LET dir == l[r.j]
                   dirToCreate == r.target \o <<Sep>> \o dir.Name
               IN IF HasSepPrefix(dir.Name)
                  THEN /\ Step(i, CreateDirsFailed(r,
                              "Only creation of relative path is supported"))
                       /\ UNCHANGED dirsOn
                  ELSE \E io \in {"ok", "stat failed", "mkdir failed"} :
                      IF io = "stat failed"
                      THEN /\ Step(i, CreateDirsFailed(
                                  Fault(Log(r, "Stat"), TRUE), "Stat failed"))
                           /\ UNCHANGED dirsOn
                      ELSE IF dirToCreate \in dirsOn
                      THEN /\ Step(i, [Log(r, "Stat") EXCEPT !.j = @ + 1])
                           /\ UNCHANGED dirsOn
                      ELSE IF io = "mkdir failed"
                      THEN /\ Step(i, CreateDirsFailed(
                                  Fault(Log(r, "MkdirAll"), TRUE),
                                  "Failed to create folder"))
                           /\ UNCHANGED dirsOn
                      ELSE /\ dirsOn' = dirsOn \cup MkdirAll(r.target, dirToCreate)
                           /\ Step(i, [Log(r, "MkdirAll") EXCEPT
                                         !.j = @ + 1,
                                         !.made = @ \cup (MkdirAll(r.target,
                                                     dirToCreate) \ dirsOn)])
    /\ UNCHANGED <<resVars, cfgType, mountTab, containers, fsAt, umounts,
                   last, hist>>

\* mountAsLink: if !isMountPoint(linkPath) { MkdirAll; createV3IOFUSEContainer }
MountAsLinkProbe(i) ==
    /\ inv[i].pc = "mountAsLink"
    /\ \E cmdOk \in BOOLEAN :
        LET r == Probed(inv[i], cmdOk)
        IN /\ Step(i, IF isMountPoint(linkPathOf(r.spec), cmdOk, mountTab)
                      THEN [r EXCEPT !.pc = "linkRemove"]
                      ELSE [r EXCEPT !.pc = "linkMkdir"])
    /\ UNCHANGED <<resVars, cfgType, mountTab, containers, fsAt, dirsOn,
                   umounts, last, hist>>

\* mountAsLink: os.MkdirAll(linkPath, 0755)
LinkMkdir(i) ==
    /\ inv[i].pc = "linkMkdir"
    /\ \E ok \in BOOLEAN :
        LET r == Fault(Log(inv[i], "MkdirAll linkPath"), ~ok)
        IN IF ok
           THEN /\ fsAt' = [fsAt EXCEPT ![linkPathOf(r.spec)] = Dir]
                /\ Step(i, [r EXCEPT !.pc = "createV3IOFUSEContainer"])
           ELSE /\ Step(i, Done(r, NewFailResponse("Failed to create target",
                                                   "MkdirAll")))
                /\ UNCHANGED fsAt
    /\ UNCHANGED <<resVars, cfgType, mountTab, containers, dirsOn, umounts,
                   last, hist>>

\* mountAsLink: os.Remove(targetPath)
LinkRemove(i) ==
    /\ inv[i].pc = "linkRemove"
    /\ \E ok \in BOOLEAN :
        LET r == Fault(Log(inv[i], "Remove"), ~ok)
        IN IF ok /\ CanRemove(r.target)
           THEN /\ fsAt' = [fsAt EXCEPT ![r.target] = NoFile]
                /\ Step(i, [r EXCEPT !.pc = "linkSymlink"])
           ELSE /\ Step(i, Done(r, NewFailResponse("Failed to remove target",
                                                   "Remove")))
                /\ UNCHANGED fsAt
    /\ UNCHANGED <<resVars, cfgType, mountTab, containers, dirsOn, umounts,
                   last, hist>>

\* mountAsLink: os.Symlink(linkPath, targetPath)
LinkSymlink(i) ==
    /\ inv[i].pc = "linkSymlink"
    /\ \E ok \in BOOLEAN :
        LET r == Fault(Log(inv[i], "Symlink"), ~ok)
        IN IF ok /\ fsAt[r.target] = NoFile
           THEN /\ fsAt' = [fsAt EXCEPT ![r.target] = Symlink(linkPathOf(r.spec))]
                /\ hist' = [hist EXCEPT !.mounted = @ \cup {r.target}]
                /\ Step(i, Done(r, NewSuccessResponse(
                                       "Successfully mounted as link")))
           ELSE /\ Step(i, Done(r, NewFailResponse("Failed to create link",
                                                   "Symlink")))
                /\ UNCHANGED <<fsAt, hist>>
    /\ UNCHANGED <<resVars, cfgType, mountTab, containers, dirsOn, umounts,
                   last>>

\* an Unmount that does not look at the configured strategy
UnmountDirectOnly(i, targetPath) ==
    /\ inv[i].op = "idle"
    /\ LET r == [Idle EXCEPT !.op = "unmount", !.target = targetPath]
       IN Step(i, [r EXCEPT !.pc = "unmountProbe"])
    /\ last' = Repeated("unmount", targetPath, Idle.spec)
    /\ UNCHANGED <<resVars, cfgType, mountTab, containers, fsAt, dirsOn,
                   umounts, hist>>

\* Unmount: choose the strategy
Unmount(i, targetPath) ==
    /\ inv[i].op = "idle"
    /\ LET r == [Idle EXCEPT !.op = "unmount", !.target = targetPath]
       IN Step(i, IF cfgType = "link"
                  THEN [r EXCEPT !.pc = "unmountAsLink"]
                  ELSE [r EXCEPT !.pc = "unmountProbe"])
    /\ last' = Repeated("unmount", targetPath, Idle.spec)
    /\ UNCHANGED <<resVars, cfgType, mountTab, containers, fsAt, dirsOn,
                   umounts, hist>>

\* unmountAsLink: os.Remove(targetPath)
UnmountAsLink(i) ==
    /\ inv[i].pc = "unmountAsLink"
    /\ \E ok \in BOOLEAN :
        LET r == Fault(Log(inv[i], "Remove"), ~ok)
        IN IF ok /\ CanRemove(r.target)
           THEN /\ fsAt' = [fsAt EXCEPT ![r.target] = NoFile]
                /\ Step(i, Done(r, NewSuccessResponse("link removed")))
           ELSE /\ Step(i, Done(r, NewFailResponse("unable to remove link",
                                                   "Remove")))
                /\ UNCHANGED fsAt
    /\ UNCHANGED <<resVars, cfgType, mountTab, containers, dirsOn, umounts,
                   last, hist>>

\* Unmount, direct mode: if !isMountPoint(targetPath) return success
UnmountProbe(i) ==
    /\ inv[i].pc = "unmountProbe"
    /\ \E cmdOk \in BOOLEAN :
        LET r == Probed(inv[i], cmdOk)
        IN /\ Step(i, IF ~isMountPoint(r.target, cmdOk, mountTab)
                      THEN Done(r, NewSuccessResponse(
                                       "Not a mountpoint, nothing to do"))
                      ELSE [r EXCEPT !.pc = "unmountCRI"])
    /\ UNCHANGED <<resVars, cfgType, mountTab, containers, fsAt, dirsOn,
                   umounts, last, hist>>

\* Unmount: createCRI()
UnmountCRI(i) ==
    /\ inv[i].pc = "unmountCRI"
    /\ \E criOk \in BOOLEAN :
        LET r == Fault(Log(inv[i], "createCRI"), ~criOk)
        IN Step(i, IF criOk THEN [r EXCEPT !.pc = "unmountRemove"]
                   ELSE Done(r, NewFailResponse("Failed to create CRI",
                                                "createCRI")))
    /\ UNCHANGED <<resVars, cfgType, mountTab, containers, fsAt, dirsOn,
                   umounts, last, hist>>

\* an Unmount that leaves the helper container to the runtime
UnmountRemoveSkipped(i) ==
    /\ inv[i].pc = "unmountRemove"
    /\ Step(i, [inv[i] EXCEPT !.pc = "umount"])
    /\ UNCHANGED <<resVars, cfgType, mountTab, containers, fsAt, dirsOn,
                   umounts, last, hist>>

\* an Unmount that drops the error of the release as the lifecycle manager does
UnmountRemoveUnchecked(i) ==
    /\ inv[i].pc = "unmountRemove"
    /\ \E ok, gone \in BOOLEAN :
        LET containerName == getContainerNameFromTargetPath(inv[i].target)
            res == RemoveContainer(containers, containerName.name, ok)
            r == [Fault(Log(inv[i], "RemoveContainer"), ~ok) EXCEPT
                     !.removed = containerName.name]
        IN /\ containers' = res.reg
           /\ mountTab' = IF gone THEN Released(mountTab, containers \ res.reg)
                                  ELSE mountTab
           /\ Step(i, [r EXCEPT !.pc = "umount"])
    /\ UNCHANGED <<resVars, cfgType, fsAt, dirsOn, umounts, last, hist>>

\* Unmount: m.removeV3IOFUSEContainer(criInstance, targetPath), its error returned
UnmountRemove(i) ==
    /\ inv[i].pc = "unmountRemove"
    /\ LET containerName == getContainerNameFromTargetPath(inv[i].target)
       IN IF containerName.err # NoError
          THEN /\ Step(i, Done(inv[i], NewFailResponse(
                              "Failed to remove v3io FUSE container",
                              "Could not get container name")))
               /\ UNCHANGED <<containers, mountTab>>
          ELSE \E ok, gone \in BOOLEAN :
              LET res == RemoveContainer(containers, containerName.name, ok)
                  r == [Fault(Log(inv[i], "RemoveContainer"), ~ok) EXCEPT
                           !.removed = containerName.name]
              IN /\ containers' = res.reg
                 /\ mountTab' = IF gone
                                THEN Released(mountTab, containers \ res.reg)
                                ELSE mountTab
                 /\ Step(i, IF res.err # NoError
                            THEN Done(r, NewFailResponse(
                                     "Failed to remove v3io FUSE container",
                                     "Could not remove container"))
                            ELSE [r EXCEPT !.pc = "umount"])
    /\ UNCHANGED <<resVars, cfgType, fsAt, dirsOn, umounts, last, hist>>

\* Unmount: exec.Command("umount", targetPath).Start()
UmountStart(i) ==
    /\ inv[i].pc = "umount"
    /\ \E ok \in BOOLEAN :
        LET r == Fault(Log(inv[i], "umount"), ~ok)
        IN IF ok
           THEN /\ umounts' = umounts \cup {r.target}
                /\ Step(i, [r EXCEPT !.pc = "unmountPoll", !.k = 1])
           ELSE /\ Step(i, Done(r, NewFailResponse("Failed to call unmount",
                                                   "Start")))
                /\ UNCHANGED umounts
    /\ UNCHANGED <<resVars, cfgType, mountTab, containers, fsAt, dirsOn,
                   last, hist>>

\* an unmount poll that lost the negation of its check
UnmountPollInverted(i) ==
    /\ inv[i].pc = "unmountPoll"
    /\ inv[i].k <= Len(UnmountSchedule)
    /\ \E cmdOk \in BOOLEAN :
        LET r == Probed(inv[i], cmdOk)
        IN /\ Step(i, IF isMountPoint(r.target, cmdOk, mountTab)
                      THEN [r EXCEPT !.pc = "unmountRmdir"]
                      ELSE [Log(r, "Sleep") EXCEPT !.k = @ + 1])
    /\ UNCHANGED <<resVars, cfgType, mountTab, containers, fsAt, dirsOn,
                   umounts, last, hist>>

\* Unmount: one round of the polling loop: the check, and the sleep while the
\* path is still mounted
UnmountPoll(i) ==
    /\ inv[i].pc = "unmountPoll"
    /\ inv[i].k <= Len(UnmountSchedule)
    /\ \E cmdOk \in BOOLEAN :
        LET r == Probed(inv[i], cmdOk)
        IN /\ Step(i, IF ~isMountPoint(r.target, cmdOk, mountTab)
                      THEN [r EXCEPT !.pc = "unmountRmdir"]
                      ELSE [Log(r, "Sleep") EXCEPT !.k = @ + 1])
    /\ UNCHANGED <<resVars, cfgType, mountTab, containers, fsAt, dirsOn,
                   umounts, last, hist>>

\* Unmount: once unmounted, os.Remove(targetPath)
UnmountRmdir(i) ==
    /\ inv[i].pc = "unmountRmdir"
    /\ \E ok \in BOOLEAN :
        LET r == Fault(Log(inv[i], "Remove"), ~ok)
        IN IF ok /\ CanRemove(r.target)
           THEN /\ fsAt' = [fsAt EXCEPT ![r.target] = NoFile]
                /\ Step(i, Done(r, NewSuccessResponse("Successfully unmounted")))
           ELSE /\ Step(i, Done(r, NewFailResponse("Could not remove directory",
                                                   "Remove")))
                /\ UNCHANGED fsAt
    /\ UNCHANGED <<resVars, cfgType, mountTab, containers, dirsOn, umounts,
                   last, hist>>

\* Unmount: the loop is over: "Failed to umount ... due to timeout"
UnmountTimeout(i) ==
    /\ inv[i].pc = "unmountPoll"
    /\ inv[i].k > Len(UnmountSchedule)
    /\ Step(i, Done(inv[i], NewFailResponse("Failed to umount due to timeout",
                                            "timeout")))
    /\ UNCHANGED <<resVars, cfgType, mountTab, containers, fsAt, dirsOn,
                   umounts, last, hist>>

\* the state the kubelet and the pods see
World == <<mountTab, containers, fsAt, dirsOn>>

\* the response reaches the kubelet and the process ends
Return(i) ==
    /\ inv[i].pc = "done"
    /\ Step(i, Idle)
    /\ last' = IF inv[i].resp.status = "Success"
               THEN [op |-> inv[i].op, target |-> inv[i].target,
                     spec |-> inv[i].spec, state |-> World]
               ELSE NoLast
    /\ UNCHANGED <<resVars, cfgType, mountTab, containers, fsAt, dirsOn,
                   umounts, hist>>

-----------------------------------------------------------------------------
(* The environment: helper containers, the kernel, the kubelet *)

\* a helper container's FUSE mount shows up on the path it is bound to
MountAppears(c) ==
    /\ c \in containers
    /\ c.phase = "starting"
    /\ fsAt[c.target] = Dir
    /\ mountTab[c.target] < MaxStack
    /\ containers' = (containers \ {c}) \cup {[c EXCEPT !.phase = "serving"]}
    /\ mountTab' = [mountTab EXCEPT ![c.target] = @ + 1]
    /\ inv' = [i \in Procs |->
                 IF inv[i].pc = "poll" /\ boundPath(inv[i]) = c.target
                 THEN [inv[i] EXCEPT !.seen = TRUE] ELSE inv[i]]
    /\ hist' = [hist EXCEPT !.mounted = @ \cup {c.target}]
    /\ last' = NoLast
    /\ UNCHANGED <<resVars, cfgType, fsAt, dirsOn, umounts>>

\* a started umount command runs: it takes the top mount off the path, or fails
UmountRuns(p) ==
    /\ p \in umounts
    /\ umounts' = umounts \ {p}
    /\ \E ok \in BOOLEAN :
        mountTab' = IF ok /\ mountTab[p] > 0
                    THEN [mountTab EXCEPT ![p] = @ - 1] ELSE mountTab
    /\ last' = NoLast
    /\ UNCHANGED <<resVars, cfgType, inv, containers, fsAt, dirsOn, hist>>

\* someone else mounts or unmounts the foreign path
ForeignMount ==
    /\ mountTab' = [mountTab EXCEPT ![ForeignPath] = 1 - @]
    /\ hist' = [hist EXCEPT !.foreign = TRUE]
    /\ last' = NoLast
    /\ UNCHANGED <<resVars, cfgType, inv, containers, fsAt, dirsOn, umounts>>

\* the kubelet creates the directory of a target path before it calls mount
KubeletMkdir(p) ==
    /\ fsAt[p] = NoFile
    /\ fsAt' = [fsAt EXCEPT ![p] = Dir]
    /\ last' = NoLast
    /\ UNCHANGED <<resVars, cfgType, inv, mountTab, containers, dirsOn,
                   umounts, hist>>

-----------------------------------------------------------------------------
(* Specifications *)

SysInit ==
    /\ cfgType \in {"link", "direct"}
    /\ inv = [i \in Procs |-> Idle]
    /\ mountTab = [p \in MountPaths |-> 0]
    /\ containers = {}
    /\ fsAt = [p \in FsPaths |-> NoFile]
    /\ dirsOn = {}
    /\ umounts = {}
    /\ last = NoLast
    /\ hist = [mounted |-> {}, foreign |-> FALSE]

Invocation(i) ==
    \/ \E t \in TargetsOf(cfgType), s \in SpecInputs(cfgType) :
          Mount(i, t, s)
    \/ MountProbe(i)
    \/ CreatePrepare(i)
    \/ RemoveStale(i)
    \/ CreateStep(i)
    \/ PollCheck(i)
    \/ PollTimeout(i)
    \/ CreateDirsParse(i)
    \/ CreateDirsStep(i)
    \/ MountAsLinkProbe(i)
    \/ LinkMkdir(i)
    \/ LinkRemove(i)
    \/ LinkSymlink(i)
    \/ \E t \in TargetsOf(cfgType) : Unmount(i, t)
    \/ UnmountAsLink(i)
    \/ UnmountProbe(i)
    \/ UnmountCRI(i)
    \/ UnmountRemove(i)
    \/ UmountStart(i)
    \/ UnmountPoll(i)
    \/ UnmountRmdir(i)
    \/ UnmountTimeout(i)
    \/ Return(i)

Environment ==
    \/ \E c \in containers : MountAppears(c)
    \/ \E p \in TargetPaths : UmountRuns(p)
    \/ ForeignMount
    \/ \E p \in TargetsOf(cfgType) : KubeletMkdir(p)

\* sequential invocations: the kubelet calls, waits for the response, calls again
Init ==
    /\ SysInit
    /\ rin = <<>> /\ rin2 = <<>> /\ rout = NotResolved
    /\ ProberIdle

Next ==
    \/ \E i \in SeqProcs : Invocation(i)
    \/ Environment

Spec == Init /\ [][Next]_vars

\* overlapping invocations: the kubelet starts one direct-mode Mount of the
\* same target path in each of two independent processes
OverlapSpec == MkSpec(TRUE, TRUE, <<"ns">>, DirsEmpty)

InitConcurrent ==
    /\ SysInit
    /\ cfgType = "direct"
    /\ rin = <<>> /\ rin2 = <<>> /\ rout = NotResolved
    /\ ProberIdle

MountInvocation(i) ==
    \/ Mount(i, TargetA, OverlapSpec)
    \/ MountProbe(i)
    \/ CreatePrepare(i)
    \/ RemoveStale(i)
    \/ CreateStep(i)
    \/ PollCheck(i)
    \/ PollTimeout(i)
    \/ CreateDirsParse(i)

NextConcurrent ==
    \/ \E i \in Procs : MountInvocation(i)
    \/ \E c \in containers : MountAppears(c)

SpecConcurrent == InitConcurrent /\ [][NextConcurrent]_vars

\* the path identity resolver alone, over its inputs
InitResolver ==
    /\ ResolveInit
    /\ ProberIdle
    /\ cfgType = "direct"
    /\ inv = [i \in Procs |-> Idle]
    /\ mountTab = [p \in MountPaths |-> 0]
    /\ containers = {}
    /\ fsAt = [p \in FsPaths |-> NoFile]
    /\ dirsOn = {}
    /\ umounts = {}
    /\ last = NoLast
    /\ hist = [mounted |-> {}, foreign |-> FALSE]

NextResolver == Resolve

SpecResolver == InitResolver /\ [][NextResolver]_vars

\* the mount-state prober alone, over the paths and the mount tables
InitProber ==
    /\ pin \in MountPaths /\ pok \in BOOLEAN /\ pout = NotProbed
    /\ mountTab \in [MountPaths -> 0..MaxStack]
    /\ rin = <<>> /\ rin2 = <<>> /\ rout = NotResolved
    /\ cfgType = "direct"
    /\ inv = [i \in Procs |-> Idle]
    /\ containers = {}
    /\ fsAt = [p \in FsPaths |-> NoFile]
    /\ dirsOn = {}
    /\ umounts = {}
    /\ last = NoLast
    /\ hist = [mounted |-> {}, foreign |-> FALSE]

NextProber == Probe

SpecProber == InitProber /\ [][NextProber]_vars

-----------------------------------------------------------------------------
(* Properties of the orchestrator under sequential invocations (Spec) *)

ValidSpec(spec) == spec.unmarshals /\ spec.validates
Returned(i, op) == inv[i].op = op /\ inv[i].pc = "done"

\* the probe of a direct-mode Mount on a mounted target ends the invocation
\* with success, nothing but the probe called and nothing changed
ProbeEndsMount(i) ==
    /\ inv'[i].pc = "done"
    /\ inv'[i].resp.status = "Success"
    /\ inv'[i].calls = {"isMountPoint"}
    /\ World' = World

C2_UnmountNeverMounted ==
    \A i \in SeqProcs :
        (Returned(i, "unmount") /\ inv[i].target \notin hist.mounted)
        => /\ inv[i].resp.status = "Success"
           /\ inv[i].calls \cap {"createCRI", "RemoveContainer"} = {}

\* C3 as stated: when the path the helper container was created for is at no
\* moment a mount point from the creation to the end of the polling schedule,
\* Mount returns the mount timeout failure and createDirs is not attempted
C3_NoMountNoSuccess ==
    \A i \in SeqProcs :
        (Returned(i, "mount") /\ inv[i].k >= 1 /\ ~inv[i].seen)
        => /\ inv[i].resp = CreateFailed(inv[i],
                                "Failed to mount due to timeout").resp
           /\ "createDirs" \notin inv[i].calls

\* C4 as stated: in link mode a Mount with a valid specification succeeds
\* and leaves the target a symbolic link to /mnt/v3io/<namespace>/<container>,
\* with one CreateContainer call when the shared path was not mounted and none
\* when it was; this whenever no collaborator answers with an error, the
\* target holds what the kubelet put there and the helper's mount shows up
\* within the polling schedule
C4_LinkSharesOneContainer ==
    \A i \in SeqProcs :
        (Returned(i, "mount") /\ cfgType = "link" /\ ValidSpec(inv[i].spec)
            /\ ~inv[i].faulted
            /\ inv[i].resp.cause \notin
                   {"Remove", "Failed to mount due to timeout"})
        => /\ inv[i].resp.status = "Success"
           /\ fsAt[inv[i].target] = Symlink(linkPathOf(inv[i].spec))
           /\ "MkdirAll linkPath" \in inv[i].calls
                <=> "CreateContainer" \in inv[i].calls

\* C5 as stated: at every moment of a sequence of invocations, every path has
\* at most one helper container of its identity and at most one active mount,
\* and an invocation that called CreateContainer for an identity called
\* RemoveContainer for that identity before
C5_OneContainerOneMount ==
    /\ \A p \in TargetPaths \cup LinkPaths :
          /\ Cardinality({c \in containers : c.target = p}) <= 1
          /\ mountTab[p] <= 1
    /\ \A c, d \in containers : c.name = d.name => c = d
    /\ \A i \in SeqProcs :
          inv[i].created # "" => inv[i].removed = inv[i].created

\* C6: a Mount whose specification does not parse or does not validate ends at
\* once with a failure, in direct mode and in link mode: it has called nothing
\* (no probe, no runtime client, no container removed or created) and mount
\* table, containers, directories, links and umount requests are as before
C6_InvalidSpecNoEffects ==
    [][\A i \in SeqProcs :
          (inv[i].op = "idle" /\ inv'[i].op = "mount"
              /\ ~ValidSpec(inv'[i].spec))
          => /\ inv'[i].pc = "done"
             /\ inv'[i].resp.status = "Failure"
             /\ inv'[i].calls = {}
             /\ World' = World
             /\ umounts' = umounts]_vars

\* C6 witness: in link mode a Mount whose specification parsed but failed
\* validation is about to return its failure, nothing called
C6_Witness ==
    \E i \in SeqProcs :
        /\ Returned(i, "mount")
        /\ cfgType = "link"
        /\ inv[i].spec.unmarshals /\ ~inv[i].spec.validates
        /\ inv[i].resp = NewFailResponse("Mount failed validation", "validate")
        /\ inv[i].calls = {}

\* C7 as stated: a Mount or an Unmount that repeats, with nothing changed in
\* between, an invocation that returned success for the same target path (and
\* specification) returns success again and leaves mounts, containers, links
\* and directories as the first one left them, whenever no collaborator
\* answers with an error
C7_Reinvocable ==
    \A i \in SeqProcs :
        (inv[i].pc = "done" /\ last.op = inv[i].op
            /\ last.target = inv[i].target /\ last.spec = inv[i].spec
            /\ ~inv[i].faulted)
        => /\ inv[i].resp.status = "Success"
           /\ World = last.state

\* the descriptor list of an invocation names an absolute path
HasAbsolute(r) ==
    \E n \in 1..Len(r.spec.DirsToCreate.list) :
        HasSepPrefix(r.spec.DirsToCreate.list[n].Name)

\* C8 as stated: createDirs with a list that holds a descriptor of an absolute
\* name ends with a failure and has created no directory of the list, wherever
\* the descriptor stands; a descriptor whose directory exists is passed over
\* without error and without change
C8_AbsoluteDescriptorCreatesNothing ==
    [][\A i \in SeqProcs :
          /\ (inv[i].pc = "dirLoop" /\ inv'[i].pc = "done"
                  /\ HasAbsolute(inv[i]))
             => (inv'[i].resp.status = "Failure" /\ inv'[i].made = {})
          /\ (inv[i].pc = "dirLoop" /\ inv'[i] # inv[i]
                  /\ inv[i].j <= Len(inv[i].spec.DirsToCreate.list)
                  /\ ~inv'[i].faulted
                  /\ (inv[i].target \o <<Sep>>
                        \o inv[i].spec.DirsToCreate.list[inv[i].j].Name)
                       \in dirsOn)
             => (inv'[i].pc = "dirLoop" /\ inv'[i].j = inv[i].j + 1
                 /\ dirsOn' = dirsOn)]_vars

\* the invocation of process i takes a step (the note that the environment
\* makes of a mount that appeared is no step of the invocation)
Steps(i) == [inv'[i] EXCEPT !.seen = inv[i].seen] # inv[i]

\* C11: in a direct-mode Unmount, past the release of the container: the poll
\* goes on to remove the directory only on the prober's answer "not mounted"
\* (with the mount table queried, only when the table does not show the path);
\* the directory is removed by no other step, only when the path is no mount
\* point, and that step reports success; while the prober answers "mounted"
\* the poll waits, and with the schedule 1, 2, 4 exhausted Unmount returns
\* the timeout failure, never having called Remove, the directory as it was
C11_RmdirOnlyOnceUnmounted ==
    [][\A i \in SeqProcs :
          (inv[i].op = "unmount" /\ cfgType # "link" /\ Steps(i))
          => /\ (inv[i].pc = "unmountPoll" /\ inv'[i].pc = "unmountRmdir"
                    /\ ~inv'[i].qfail)
                => ~isMountPoint(inv[i].target, TRUE, mountTab)
             /\ (inv[i].pc = "unmountPoll"
                    /\ inv[i].k <= Len(UnmountSchedule) /\ ~inv'[i].qfail
                    /\ isMountPoint(inv[i].target, TRUE, mountTab))
                => (inv'[i].pc = "unmountPoll" /\ inv'[i].k = inv[i].k + 1
                    /\ fsAt' = fsAt)
             /\ fsAt' # fsAt
                => /\ inv[i].pc = "unmountRmdir"
                   /\ mountTab[inv[i].target] = 0
                   /\ fsAt' = [fsAt EXCEPT ![inv[i].target] = NoFile]
                   /\ inv'[i].pc = "done"
                   /\ inv'[i].resp = NewSuccessResponse("Successfully unmounted")
             /\ (inv[i].pc = "unmountPoll" /\ inv[i].k > Len(UnmountSchedule))
                => /\ inv'[i].pc = "done"
                   /\ inv'[i].resp = NewFailResponse(
                          "Failed to umount due to timeout", "timeout")
                   /\ "Remove" \notin inv'[i].calls
                   /\ fsAt' = fsAt]_vars

\* C11 witness: a direct-mode Unmount of a path that had been mounted has
\* released the container, seen the path unmounted, removed the directory and
\* is about to return success
C11_Witness ==
    \E i \in SeqProcs :
        /\ Returned(i, "unmount")
        /\ cfgType # "link"
        /\ inv[i].target \in hist.mounted
        /\ {"RemoveContainer", "umount", "Sleep", "Remove"} \subseteq inv[i].calls
        /\ inv[i].resp = NewSuccessResponse("Successfully unmounted")
        /\ fsAt[inv[i].target] = NoFile

\* C13: every step of a link-mode Unmount, whether it ends in success or in
\* failure, leaves the containers, the mount table (the shared mount with it)
\* and the umount requests as they are, calls nothing but Remove, and changes
\* the filesystem at most by removing what stands at the target path: the
\* shared path and its directory stay
C13_LinkUnmountOnlyUnlinks ==
    [][\A i \in SeqProcs :
          (cfgType = "link" /\ Steps(i) /\ inv'[i].op = "unmount")
          => /\ containers' = containers
             /\ mountTab' = mountTab
             /\ umounts' = umounts
             /\ dirsOn' = dirsOn
             /\ inv'[i].calls \subseteq {"Remove"}
             /\ \/ fsAt' = fsAt
                \/ /\ fsAt' = [fsAt EXCEPT ![inv'[i].target] = NoFile]
                   /\ inv'[i].resp.status = "Success"
             /\ inv'[i].pc = "done" =>
                   (inv'[i].resp.status = "Success" <=> fsAt' # fsAt)]_vars

\* C13 witness: a link-mode Unmount has removed the link of a pod and is
\* about to return success while the shared path is mounted and its helper
\* container is there
C13_Witness ==
    \E i \in SeqProcs :
        /\ Returned(i, "unmount")
        /\ cfgType = "link"
        /\ inv[i].target \in hist.mounted
        /\ inv[i].resp = NewSuccessResponse("link removed")
        /\ fsAt[inv[i].target] = NoFile
        /\ \E c \in containers :
              /\ c.target \in LinkPaths
              /\ mountTab[c.target] > 0
              /\ fsAt[c.target] = Dir

\* the places of an invocation, in the order the code passes them
PcOrder ==
    <<"mountAsLink", "linkMkdir", "probe", "createV3IOFUSEContainer",
      "removeStale", "create", "poll", "linkRemove", "linkSymlink",
      "createDirs", "dirLoop", "unmountAsLink", "unmountProbe", "unmountCRI",
      "unmountRemove", "umount", "unmountPoll", "unmountRmdir", "done">>
Pos(pc) == CHOOSE n \in 1..Len(PcOrder) : PcOrder[n] = pc

\* a step that stays where it is: one wait of a polling schedule, or one
\* descriptor of the directory list
Waits(r, t, place, schedule) ==
    /\ r.pc = place /\ t.pc = place
    /\ r.k <= Len(schedule) /\ t.k = r.k + 1
    /\ "Sleep" \in t.calls
NextDescriptor(r, t) ==
    /\ r.pc = "dirLoop" /\ t.pc = "dirLoop"
    /\ r.j <= Len(r.spec.DirsToCreate.list) /\ t.j = r.j + 1

\* C14: whatever the collaborators answer, every step of a running invocation
\* moves it forward in the code or is one wait of a polling schedule (or one
\* descriptor of the list), so no path loops and every invocation ends after
\* a bounded number of steps; the create-side poll waits at most 5 times, the
\* unmount-side poll at most 3 times, and nothing waits elsewhere; an
\* invocation has one outcome, success or failure, exactly when it has come
\* to its end, and then returns
C14_Progress ==
    [][\A i \in SeqProcs :
          /\ (Steps(i) /\ inv[i].op # "idle" /\ inv[i].pc # "done")
             => /\ \/ Pos(inv'[i].pc) > Pos(inv[i].pc)
                   \/ Waits(inv[i], inv'[i], "poll", CreateSchedule)
                   \/ Waits(inv[i], inv'[i], "unmountPoll", UnmountSchedule)
                   \/ NextDescriptor(inv[i], inv'[i])
                /\ inv'[i].k - 1 <= IF inv[i].op = "mount" THEN 5 ELSE 3
                /\ ("Sleep" \in inv'[i].calls /\ "Sleep" \notin inv[i].calls)
                   => inv[i].pc \in {"poll", "unmountPoll"}
                /\ inv[i].resp = NoResponse
                /\ (inv'[i].pc = "done")
                   <=> (inv'[i].resp.status \in {"Success", "Failure"})
          /\ (Steps(i) /\ inv[i].pc = "done") => inv'[i] = Idle]_vars

\* C14 witness: a Mount has waited all 5 steps of the create-side schedule
\* and is about to return the timeout failure
C14_Witness ==
    \E i \in SeqProcs :
        /\ Returned(i, "mount")
        /\ inv[i].k = Len(CreateSchedule) + 1
        /\ inv[i].resp.cause = "Failed to mount due to timeout"

\* the step of process i ends its invocation with a failure outcome
EndsInFailure(i) ==
    inv'[i].pc = "done" /\ inv'[i].resp.status = "Failure"

C16_MountedInTimeSucceeds ==
    \A i \in SeqProcs :
        (Returned(i, "mount") /\ inv[i].k >= 1 /\ inv[i].seen
            /\ mountTab[boundPath(inv[i])] > 0 /\ ~inv[i].qfail)
        => inv[i].resp.cause # "Failed to mount due to timeout"

\* the calls the step of process i adds to those of its invocation
NewCalls(i) == inv'[i].calls \ inv[i].calls

\* C17: in a direct-mode Unmount that found the path mounted, the release of
\* the container is called before umount and before Remove; umount is only
\* called after a release that succeeded (no container of the identity is
\* left); Remove is only called, and the directory only removed, after umount
\* was started; a release that fails ends the invocation with a failure, and
\* neither umount nor Remove is ever called
C17_UnmountOrder ==
    [][\A i \in SeqProcs :
          (inv[i].op = "unmount" /\ cfgType # "link" /\ Steps(i))
          => LET r == inv[i]
             IN /\ "RemoveContainer" \in NewCalls(i)
                   => /\ r.pc = "unmountRemove"
                      /\ r.calls \cap {"umount", "Remove"} = {}
                /\ ("umount" \in NewCalls(i) \/ umounts' # umounts)
                   => /\ r.pc = "umount"
                      /\ "RemoveContainer" \in r.calls
                      /\ ~r.faulted
                      /\ ~\E c \in containers : c.name = r.removed
                /\ ("Remove" \in NewCalls(i) \/ fsAt' # fsAt)
                   => /\ r.pc = "unmountRmdir"
                      /\ {"RemoveContainer", "umount"} \subseteq r.calls
                      /\ r.k >= 1
                /\ (r.pc = "unmountRemove" /\ inv'[i].faulted)
                   => /\ EndsInFailure(i)
                      /\ umounts' = umounts /\ fsAt' = fsAt
                      /\ inv'[i].calls \cap {"umount", "Remove"} = {}]_vars

\* C17 witness: the release failed in a direct-mode Unmount of a mounted
\* path, which is about to return the failure with the container and the
\* mount still there and neither umount nor Remove called
C17_Witness ==
    \E i \in SeqProcs :
        /\ Returned(i, "unmount")
        /\ cfgType # "link"
        /\ inv[i].resp.cause = "Could not remove container"
        /\ inv[i].calls = {"isMountPoint", "createCRI", "RemoveContainer"}
        /\ mountTab[inv[i].target] > 0
        /\ \E c \in containers : c.name = inv[i].removed
        /\ umounts = {}

\* the directories the specification of an invocation declares by relative
\* names all exist under its target path
DeclaredDirsExist(r) ==
    \A n \in 1..Len(r.spec.DirsToCreate.list) :
        LET dir == r.spec.DirsToCreate.list[n]
        IN ~HasSepPrefix(dir.Name)
              => (r.target \o <<Sep>> \o dir.Name) \in dirsOn

\* C19 as stated: whenever a direct-mode Mount returns success, every
\* directory its specification declares by a relative name exists under the
\* target path, whatever invocations came before; stated here for the Mounts
\* whose target is a mount point when they return
C19_SuccessMeansDirsExist ==
    \A i \in SeqProcs :
        (Returned(i, "mount") /\ cfgType # "link"
            /\ inv[i].resp.status = "Success"
            /\ mountTab[inv[i].target] > 0)
        => DeclaredDirsExist(inv[i])

\* C19 amended: whenever a direct-mode Mount that did not find its target
\* already mounted (it ran the lifecycle manager and createDirs) returns
\* success, every directory its specification declares by a relative name
\* exists under the target path
C19_FreshSuccessMeansDirsExist ==
    \A i \in SeqProcs :
        (Returned(i, "mount") /\ cfgType # "link"
            /\ inv[i].resp = NewSuccessResponse("Successfully mounted"))
        => /\ "createDirs" \in inv[i].calls
           /\ DeclaredDirsExist(inv[i])

\* C19 witness: a direct-mode Mount has created a declared directory and is
\* about to return success
C19_Witness ==
    \E i \in SeqProcs :
        /\ Returned(i, "mount")
        /\ cfgType # "link"
        /\ inv[i].resp = NewSuccessResponse("Successfully mounted")
        /\ inv[i].spec.DirsToCreate = DirsJSON(<<DirRel>>)
        /\ (inv[i].target \o <<Sep>> \o DirRel.Name) \in inv[i].made

\* no helper container of the identity of the target of an invocation is left
NoHelperLeft(r) ==
    ~\E c \in containers :
         c.name = getContainerNameFromTargetPath(r.target).name

\* C20 as stated: when a direct-mode Unmount returns success, no helper
\* container of the identity of its target is left in the runtime, whatever
\* invocations came before; stated here for the Unmounts whose queries of the
\* mount table were all answered, on a node where nobody else has mounted
C20_UnmountLeavesNoHelper ==
    \A i \in SeqProcs :
        (Returned(i, "unmount") /\ cfgType # "link"
            /\ inv[i].resp.status = "Success" /\ ~inv[i].qfail
            /\ ~hist.foreign)
        => NoHelperLeft(inv[i])

\* C20 amended: when a direct-mode Unmount that found its target mounted
\* returns success ("Successfully unmounted"), it has called RemoveContainer
\* and no helper container of the identity of its target is left
C20_UnmountOfMountedLeavesNoHelper ==
    \A i \in SeqProcs :
        (Returned(i, "unmount") /\ cfgType # "link"
            /\ inv[i].resp = NewSuccessResponse("Successfully unmounted"))
        => /\ "RemoveContainer" \in inv[i].calls
           /\ NoHelperLeft(inv[i])

\* C20 witness: a direct-mode Unmount of a path that had been mounted is
\* about to return "Successfully unmounted", the helper container released
\* and the runtime empty
C20_Witness ==
    \E i \in SeqProcs :
        /\ Returned(i, "unmount")
        /\ cfgType # "link"
        /\ inv[i].resp = NewSuccessResponse("Successfully unmounted")
        /\ inv[i].target \in hist.mounted
        /\ inv[i].removed = getContainerNameFromTargetPath(inv[i].target).name
        /\ containers = {}

-----------------------------------------------------------------------------
(* Properties of overlapping Mount invocations (SpecConcurrent) *)

\* C12 as stated: while two Mount invocations for one target path overlap, at
\* no point do two helper containers of the path's identity exist, and once
\* both have returned the path has at most one helper container and at most
\* one active mount; stated here for the interleavings in which no
\* collaborator answers with an error
C12_OverlappingMountsConverge ==
    LET identity == getContainerNameFromTargetPath(TargetA).name
        helpers == {c \in containers : c.name = identity}
    IN /\ Cardinality(helpers) <= 1
       /\ (\A i \in Procs : Returned(i, "mount") /\ ~inv[i].faulted)
          => mountTab[TargetA] <= 1

-----------------------------------------------------------------------------
(* Properties of the path identity resolver (SpecResolver) *)

ExamplePath == AbsPath(<<"a", "pods", "XYZ", "volumes", "v3io~fuse", "vol1">>)

\* C9: the resolver is a function of the path alone: when a segment equal to
\* "pods" is followed by another segment, the result is v3io-fuse-<the segment
\* after the first "pods">-<the last segment>, without error; the result is an
\* error exactly when no segment is "pods" or the only one is the last segment.
\* /a/pods/XYZ/volumes/v3io~fuse/vol1 gives v3io-fuse-XYZ-vol1, /a/pods and
\* /a/b/c give errors.
C9_ResolverContract ==
    rout # NotResolved =>
        LET segs == Split(rin)
            pods == {n \in 1..Len(segs) : segs[n] = "pods"}
            followed == {n \in pods : n < Len(segs)}
        IN /\ followed # {} =>
                rout[1] = [name |-> "v3io-fuse-" \o segs[Min(followed) + 1]
                                      \o "-" \o segs[Len(segs)],
                           err |-> NoError]
           /\ (rout[1].err # NoError) <=> (pods = {} \/ pods = {Len(segs)})
           /\ rin = ExamplePath => rout[1].name = "v3io-fuse-XYZ-vol1"
           /\ rin = AbsPath(<<"a", "pods">>) => rout[1].err # NoError
           /\ rin = AbsPath(<<"a", "b", "c">>) => rout[1].err # NoError

\* C9 witness: the resolver has answered for a path whose first "pods" is
\* followed by a pod id while a later "pods" ends the path
C9_Witness ==
    /\ rout # NotResolved
    /\ rin = <<"pods", Sep, "a", Sep, "pods">>
    /\ rout[1].name = "v3io-fuse-a-pods"

\* C10 as stated: two different target paths of the kubelet form never resolve
\* to the same container identity
C10_CollisionFree ==
    (rout # NotResolved /\ rin \in KubeletPaths /\ rin2 \in KubeletPaths
        /\ rin # rin2)
    => rout[1].name # rout[2].name

-----------------------------------------------------------------------------
(* Properties of the mount-state prober (SpecProber) *)

\* C18 as stated: isMountPoint(path) answers true exactly when the mount
\* table can be queried and the path itself is mounted; false when the table
\* cannot be queried, and false for a path that is not mounted itself while a
\* mounted path ends with its text
C18_ProberExact ==
    pout # NotProbed => (pout[1] <=> (pok /\ mountTab[pin] > 0))

====
